---- MODULE Spec2Model ----
(***************************************************************************)
(* HttpRequest (lib/http_request.js): an intercepted request that is       *)
(* routed through a queue of handlers and resolved by a command sent on    *)
(* the CDP session.  JavaScript values are modelled with a type tag, text  *)
(* as sequences of character codes, buffers as sequences of bytes.         *)
(***************************************************************************)
EXTENDS Integers, Sequences, FiniteSets, TLC

\* Bounds of the model.
MaxEvents == 2
MaxChain == 3
MaxCalls == 2

Events == 1..MaxEvents
Handlers == 1..MaxChain

VARIABLES
  created,      \* the events constructed so far
  params_,      \* this.params_   (per event)
  handlers_,    \* this.handlers_ (per event): the handlers still queued
  done_,        \* this.done_     (per event)
  sent,         \* the commands handed to session_.send, in order
  sessionOpen,  \* whether the session still acknowledges commands
  chain,        \* the handler list each event was constructed with
  invoked,      \* per event, the handlers called so far, in order
  continues,    \* per event, the handlers that called continue(), one per call
  ncalls,       \* number of decision-method calls made so far
  threw,        \* per event, the handlers that threw as soon as they were called
  registry,     \* the host's handler registration list
  shared,       \* the events whose this.handlers_ is the registration list itself
  lastCall      \* what the most recent operation was given and what it did

vars == <<created, params_, handlers_, done_, sent, sessionOpen, chain,
          invoked, continues, ncalls, threw, registry, shared, lastCall>>

----------------------------------------------------------------------------
\* JavaScript values

Undefined == [t |-> "undefined"]
Str(s) == [t |-> "string", v |-> s]
Num(n) == [t |-> "number", v |-> n]
Obj(o) == [t |-> "object", v |-> o]
Buf(b) == [t |-> "buffer", v |-> b]

\* ToBoolean: undefined, the empty string and 0 are falsy; objects, buffers
\* (of any length) and functions are truthy.
Truthy(x) ==
  CASE x.t = "undefined" -> FALSE
    [] x.t = "string" -> x.v # <<>>
    [] x.t = "number" -> x.v # 0
    [] OTHER -> TRUE

\* o.k for an object or undefined-guarded read of a property
Get(o, k) == IF k \in DOMAIN o.v THEN o.v[k] ELSE Undefined

Range(s) == {s[i] : i \in DOMAIN s}

----------------------------------------------------------------------------
\* What a method call does to its event: the new done_ and handlers_, the
\* commands it hands to session_.send, the handlers it calls, what the caller
\* gets back, and a rejected promise that nobody holds.

Effect(d, q, cmds, inv, out, lost) ==
  [done_ |-> d, handlers_ |-> q, cmds |-> cmds, invoked |-> inv,
   outcome |-> out, dropped |-> lost]

This(e) == [params_ |-> params_[e], handlers_ |-> handlers_[e], done_ |-> done_[e]]

Cmd(method, params) == [method |-> method, params |-> params]

\* The promise session_.send returns: acknowledged, or rejected when the
\* session is closed.
SendOutcome == IF sessionOpen THEN "fulfilled" ELSE "rejected: transport"

Conflict == "rejected: Already resolved given request"

\* An exception of the handler, passing through callNextHandler_ to its caller
Threw == "threw: handler error"

\* abort() with a reason of its own
abortOtherReason(this) ==
  Effect(TRUE, this.handlers_,
         <<Cmd("Fetch.failRequest",
               [requestId |-> this.params_.requestId, errorReason |-> "Aborted"])>>,
         <<>>, SendOutcome, "none")

\* abort() that sends its command without setting done_
abortKeepsFlag(this) ==
  Effect(this.done_, this.handlers_,
         <<Cmd("Fetch.failRequest",
               [requestId |-> this.params_.requestId, errorReason |-> "Failed"])>>,
         <<>>, SendOutcome, "none")

abort(this) ==
  Effect(TRUE, this.handlers_,
         <<Cmd("Fetch.failRequest",
               [requestId |-> this.params_.requestId, errorReason |-> "Failed"])>>,
         <<>>, SendOutcome, "none")

\* fail() that names the first request, whichever event it is called on
failFirstRequest(this) ==
  Effect(TRUE, this.handlers_,
         <<Cmd("Fetch.failRequest", [requestId |-> 1, errorReason |-> "Failed"])>>,
         <<>>, SendOutcome, "none")

fail(this) ==
  Effect(TRUE, this.handlers_,
         <<Cmd("Fetch.failRequest",
               [requestId |-> this.params_.requestId, errorReason |-> "Failed"])>>,
         <<>>, SendOutcome, "none")

\* async resolve_(params): a throw inside an async function rejects the
\* promise it returns.
resolve_(this, params) ==
  IF this.done_
  THEN Effect(this.done_, this.handlers_, <<>>, <<>>, Conflict, "none")
  ELSE Effect(TRUE, this.handlers_,
              <<Cmd("Fetch.continueRequest",
                    [requestId |-> this.params_.requestId] @@ params)>>,
              <<>>, SendOutcome, "none")

EmptyObject == [f \in {} |-> Undefined]

\* callNextHandler_() without the default decision on an empty queue
callNextHandlerNoDefault(this, throws) ==
  IF this.handlers_ # <<>>
  THEN Effect(this.done_, Tail(this.handlers_), <<>>, <<Head(this.handlers_)>>,
              IF throws THEN Threw ELSE "undefined", "none")
  ELSE Effect(this.done_, this.handlers_, <<>>, <<>>, "undefined", "none")

\* callNextHandler_() that catches what the handler throws and moves on to the
\* handler after it
callNextHandlerCatches(this, throws) ==
  IF this.handlers_ # <<>>
  THEN IF throws /\ Len(this.handlers_) > 1
       THEN Effect(this.done_, Tail(Tail(this.handlers_)), <<>>,
                   SubSeq(this.handlers_, 1, 2), "undefined", "none")
       ELSE Effect(this.done_, Tail(this.handlers_), <<>>,
                   <<Head(this.handlers_)>>, "undefined", "none")
  ELSE LET r == resolve_(this, EmptyObject)
       IN  Effect(r.done_, r.handlers_, r.cmds, r.invoked, "undefined",
                  IF r.outcome = "fulfilled" THEN "none" ELSE r.outcome)

\* callNextHandler_() that calls the front handler and leaves it queued
callNextHandlerPeeks(this, throws) ==
  IF this.handlers_ # <<>>
  THEN Effect(this.done_, this.handlers_, <<>>, <<Head(this.handlers_)>>,
              IF throws THEN Threw ELSE "undefined", "none")
  ELSE LET r == resolve_(this, EmptyObject)
       IN  Effect(r.done_, r.handlers_, r.cmds, r.invoked, "undefined",
                  IF r.outcome = "fulfilled" THEN "none" ELSE r.outcome)

\* callNextHandler_(): returns undefined on both paths; the promise of
\* resolve_({}) is not returned.  `throws` says whether the handler it calls
\* throws at once: nothing catches that, so it leaves callNextHandler_.
callNextHandler_(this, throws) ==
  IF this.handlers_ # <<>>
  THEN Effect(this.done_, Tail(this.handlers_), <<>>, <<Head(this.handlers_)>>,
              IF throws THEN Threw ELSE "undefined", "none")
  ELSE LET r == resolve_(this, EmptyObject)
       IN  Effect(r.done_, r.handlers_, r.cmds, r.invoked, "undefined",
                  IF r.outcome = "fulfilled" THEN "none" ELSE r.outcome)

\* continue() that does nothing when no handler is queued
continueOnlyQueued(this, throws) == callNextHandlerNoDefault(this, throws)

\* continue() that lets the browser go on at once, as deferToBrowser() does
continueResolves(this, throws) == resolve_(this, EmptyObject)

continue(this, throws) == callNextHandler_(this, throws)

OverrideFields == {"url", "method", "headers"}

\* deferToBrowser() that copies every field that is present
deferToBrowserPresent(this, overrides) ==
  LET params == [f \in {g \in OverrideFields :
                          Truthy(overrides) /\ g \in DOMAIN overrides.v}
                   |-> Get(overrides, f)]
  IN  resolve_(this, params)

\* deferToBrowser() that also moves on to the next handler
deferToBrowserConsults(this, overrides) ==
  LET params == [f \in {g \in OverrideFields :
                          Truthy(overrides) /\ Truthy(Get(overrides, g))}
                   |-> Get(overrides, f)]
      r == resolve_(this, params)
  IN  IF this.handlers_ # <<>>
      THEN Effect(r.done_, Tail(this.handlers_), r.cmds, <<Head(this.handlers_)>>,
                  r.outcome, r.dropped)
      ELSE r

deferToBrowser(this, overrides) ==
  LET params == [f \in {g \in OverrideFields :
                          Truthy(overrides) /\ Truthy(Get(overrides, g))}
                   |-> Get(overrides, f)]
  IN  resolve_(this, params)

----------------------------------------------------------------------------
\* fulfill: header shaping, content-length, body encoding

\* String.prototype.toLowerCase on ASCII text
toLowerCase(s) == [i \in DOMAIN s |-> IF s[i] \in 65..90 THEN s[i] + 32 ELSE s[i]]

\* 'content-length'
ContentLength == <<99, 111, 110, 116, 101, 110, 116, 45, 108, 101, 110, 103, 116, 104>>

\* String(n) for a non-negative integer: its decimal digits
RECURSIVE String(_)
String(n) == IF n < 10 THEN <<48 + n>> ELSE Append(String(n \div 10), 48 + (n % 10))

\* Number of bytes of the UTF-8 encoding of a text
RECURSIVE Utf8Length(_)
Utf8Length(s) ==
  IF s = <<>> THEN 0
  ELSE (IF Head(s) < 128 THEN 1 ELSE IF Head(s) < 2048 THEN 2 ELSE 3)
       + Utf8Length(Tail(s))

\* body.length: for a text, its number of characters
bodyLength(body) == Len(body.v)

\* Buffer.byteLength(body): a buffer's length, a string's UTF-8 length
byteLength(body) == IF body.t = "buffer" THEN Len(body.v) ELSE Utf8Length(body.v)

\* The base64 alphabet: A-Z a-z 0-9 + /
Base64Char(i) ==
  IF i < 26 THEN 65 + i
  ELSE IF i < 52 THEN 97 + (i - 26)
  ELSE IF i < 62 THEN 48 + (i - 52)
  ELSE IF i = 62 THEN 43 ELSE 47

Pad == 61

RECURSIVE Base64(_)
Base64(b) ==
  IF Len(b) = 0 THEN <<>>
  ELSE IF Len(b) = 1
    THEN <<Base64Char(b[1] \div 4), Base64Char((b[1] % 4) * 16), Pad, Pad>>
  ELSE IF Len(b) = 2
    THEN <<Base64Char(b[1] \div 4),
           Base64Char((b[1] % 4) * 16 + (b[2] \div 16)),
           Base64Char((b[2] % 16) * 4), Pad>>
  ELSE <<Base64Char(b[1] \div 4),
         Base64Char((b[1] % 4) * 16 + (b[2] \div 16)),
         Base64Char((b[2] % 16) * 4 + (b[3] \div 64)),
         Base64Char(b[3] % 64)>> \o Base64(SubSeq(b, 4, Len(b)))

\* responseBuffer.toString('latin1'): one character per byte
toStringLatin1(x) == IF x.t = "buffer" THEN Str(x.v) ELSE x

\* responseBuffer.toString('base64'): Buffer.prototype.toString encodes the
\* bytes; String.prototype.toString takes no encoding and returns the text.
toStringBase64(x) == IF x.t = "buffer" THEN Str(Base64(x.v)) ELSE x

fulfill(this, options) ==
  LET headers == Get(options, "headers")
      body == Get(options, "body")
      status == IF Truthy(Get(options, "status"))
                THEN Get(options, "status") ELSE Num(200)
      keys == IF Truthy(headers) THEN headers.v ELSE <<>>
      supplied == [i \in DOMAIN keys |->
                     [name |-> Str(toLowerCase(keys[i][1])), value |-> keys[i][2]]]
      hasContentLength ==
        \E i \in DOMAIN keys : toLowerCase(keys[i][1]) = ContentLength
      responseHeaders ==
        IF Truthy(body) /\ ~hasContentLength
        THEN Append(supplied, [name |-> Str(ContentLength),
                               value |-> Str(String(byteLength(body)))])
        ELSE supplied
      responseBuffer == IF Truthy(body) THEN body ELSE Buf(<<>>)
  IN  Effect(TRUE, this.handlers_,
             <<Cmd("Fetch.fulfillRequest",
                   [requestId |-> this.params_.requestId,
                    responseCode |-> status,
                    responseHeaders |-> responseHeaders,
                    body |-> toStringBase64(responseBuffer)])>>,
             <<>>, SendOutcome, "none")

----------------------------------------------------------------------------
\* Inputs

\* The lists an event can be constructed with: handlers 1..n in
\* registration order.
Chains == {[i \in 1..n |-> i] : n \in 0..MaxChain}

\* Interception notification of event e (Fetch.requestPaused): the request
\* id, the request and the resource type.  Only the first request carries
\* headers.
GET == <<71, 69, 84>>
XId == <<88, 45, 73, 100>>
PageUrl == <<104, 116, 116, 112, 58, 47, 47, 97, 47>>
Document == <<68, 111, 99, 117, 109, 101, 110, 116>>
Script == <<83, 99, 114, 105, 112, 116>>

Notification(e) ==
  [requestId |-> e,
   request |-> IF e = 1
               THEN [url |-> Str(PageUrl), method |-> Str(GET),
                     headers |-> Obj(<< <<XId, Str(<<48 + e>>)>> >>)]
               ELSE [url |-> Str(Append(PageUrl, 48 + e)), method |-> Str(GET)],
   resourceType |-> IF e = 1 THEN Str(Document) ELSE Str(Script)]

\* An options object holding the fields that are given
Fields(r) == Obj([k \in {f \in DOMAIN r : r[f] # Undefined} |-> r[k]])

POST == <<80, 79, 83, 84>>
OtherUrl == <<104, 116, 116, 112, 58, 47, 47, 98, 47>>
MixedContentLength ==
  <<67, 111, 110, 116, 101, 110, 116, 45, 76, 101, 110, 103, 116, 104>>
Text99 == <<57, 57>>
Text7 == <<55>>

UrlValues == {Undefined, Str(<<>>), Str(OtherUrl)}
MethodValues == {Undefined, Str(<<>>), Str(POST)}
HeaderValues ==
  {Undefined,
   Obj(<<>>),
   Obj(<< <<XId, Str(Text7)>> >>),
   Obj(<< <<MixedContentLength, Str(Text99)>> >>),
   Obj(<< <<XId, Str(Text7)>>, <<ContentLength, Str(Text99)>> >>)}

AllOverrides ==
  {Undefined} \cup
  {Fields([url |-> u, method |-> m, headers |-> h]) :
     u \in UrlValues, m \in MethodValues, h \in HeaderValues}

\* Bodies: buffers over a few byte values and texts over a few characters
\* (h, i with one UTF-8 byte each, e-acute with two), up to MaxBody long.
MaxBody == 3
ByteValues == {0, 104, 255}
CharValues == {104, 233}
SeqsUpTo(S, n) == UNION {[1..k -> S] : k \in 0..n}

BodyValues ==
  {Undefined} \cup {Buf(b) : b \in SeqsUpTo(ByteValues, MaxBody)}
              \cup {Str(c) : c \in SeqsUpTo(CharValues, MaxBody)}
StatusValues == {Undefined, Num(0), Num(404)}

AllOptions ==
  {Fields([status |-> st, headers |-> h, body |-> b]) :
     st \in StatusValues, h \in HeaderValues, b \in BodyValues}

\* The inputs of the specification of the whole life of events
SomeOverrides == {Fields([method |-> Str(POST)])}
SomeOptions == {Fields([status |-> Num(404), body |-> Buf(<<104, 104>>)])}

----------------------------------------------------------------------------
\* Accessors: each returns a value read from the notification and changes
\* nothing

Read(this, value) == Effect(this.done_, this.handlers_, <<>>, <<>>, value, "none")

url(this) == Read(this, this.params_.request.url)

method(this) == Read(this, this.params_.request.method)

\* A headers getter without the fallback to an empty mapping
headersAsNotified(this) ==
  Read(this, IF "headers" \in DOMAIN this.params_.request
             THEN this.params_.request.headers ELSE Undefined)

\* this.params_.request.headers || {}
headers(this) ==
  LET own == IF "headers" \in DOMAIN this.params_.request
             THEN this.params_.request.headers ELSE Undefined
  IN  Read(this, IF Truthy(own) THEN own ELSE Obj(<<>>))

resourceType(this) == Read(this, this.params_.resourceType)

----------------------------------------------------------------------------
\* State machine

NoCall == [op |-> "none"]

Init ==
  /\ created = {}
  /\ params_ = <<>>
  /\ handlers_ = <<>>
  /\ done_ = <<>>
  /\ sent = <<>>
  /\ sessionOpen = TRUE
  /\ chain = <<>>
  /\ invoked = <<>>
  /\ continues = <<>>
  /\ ncalls = 0
  /\ threw = <<>>
  /\ registry = <<>>
  /\ shared = {}
  /\ lastCall = NoCall

Call(op, e, h, arg, throws, this, eff) ==
  [op |-> op, event |-> e, handler |-> h, arg |-> arg, throws |-> throws,
   before |-> this,
   done_ |-> eff.done_, handlers_ |-> eff.handlers_, cmds |-> eff.cmds,
   invoked |-> eff.invoked, outcome |-> eff.outcome, dropped |-> eff.dropped,
   open |-> sessionOpen]

\* The handlers a call started that threw
Thrown(eff) == IF eff.outcome = Threw THEN Range(eff.invoked) ELSE {}

\* The array `list` passed as it is, or as an array of the caller's own
Array(list, same) == [items |-> list, same |-> same]

\* An assignment q to the queue of event e writes the array e holds: every
\* event that holds the same array, and the registration list when that is
\* the array, see it.
Aliases(e) == IF e \in shared THEN shared ELSE {e}

\* new HttpRequest(session, params, handlers), the handlers array being the
\* registration list itself when handlers.same; `throws`: the first handler
\* throws when the constructor calls it
Construct(e, params, handlers, throws) ==
  /\ e \notin created
  /\ e = Cardinality(created) + 1
  /\ throws => handlers.items # <<>>
  /\ LET this == [params_ |-> params, handlers_ |-> handlers.items, done_ |-> FALSE]
         eff == callNextHandler_(this, throws)
     IN  /\ created' = created \cup {e}
         /\ params_' = params_ @@ (e :> params)
         /\ handlers_' =
              [x \in created \cup {e} |->
                 IF x = e \/ (handlers.same /\ x \in shared)
                 THEN eff.handlers_ ELSE handlers_[x]]
         /\ registry' = IF handlers.same THEN eff.handlers_ ELSE registry
         /\ shared' = IF handlers.same THEN shared \cup {e} ELSE shared
         /\ done_' = done_ @@ (e :> eff.done_)
         /\ sent' = sent \o eff.cmds
         /\ chain' = chain @@ (e :> handlers.items)
         /\ invoked' = invoked @@ (e :> eff.invoked)
         /\ continues' = continues @@ (e :> <<>>)
         /\ threw' = threw @@ (e :> Thrown(eff))
         /\ lastCall' = Call("new", e, 0, handlers.items, throws, this, eff)
  /\ UNCHANGED <<sessionOpen, ncalls>>

\* new HttpRequest(session, params, handlers) with an array of the caller's own
NewHttpRequest(e, params, handlers, throws) ==
  Construct(e, params, Array(handlers, FALSE), throws)

\* An assignment of q to this.handlers_ of event e
WriteQueue(e, q) ==
  /\ handlers_' = [x \in created |-> IF x \in Aliases(e) THEN q ELSE handlers_[x]]
  /\ registry' = IF e \in shared THEN q ELSE registry

\* A handler that was called with event e, and did not throw at once, holds
\* it and may call its methods.
Holds(e, h) == e \in created /\ h \in Range(invoked[e]) \ threw[e]

Apply(op, e, h, arg, throws, eff) ==
  /\ done_' = [done_ EXCEPT ![e] = eff.done_]
  /\ WriteQueue(e, eff.handlers_)
  /\ sent' = sent \o eff.cmds
  /\ invoked' = [invoked EXCEPT ![e] = @ \o eff.invoked]
  /\ continues' = [continues EXCEPT ![e] = IF op = "continue" THEN Append(@, h) ELSE @]
  /\ ncalls' = ncalls + 1
  /\ threw' = [threw EXCEPT ![e] = @ \cup Thrown(eff)]
  /\ lastCall' = Call(op, e, h, arg, throws, This(e), eff)
  /\ UNCHANGED <<created, params_, sessionOpen, chain, shared>>

\* A read of an accessor of event e, by anyone, at any time
Access(op, e, eff) ==
  /\ e \in created
  /\ done_' = [done_ EXCEPT ![e] = eff.done_]
  /\ WriteQueue(e, eff.handlers_)
  /\ sent' = sent \o eff.cmds
  /\ invoked' = [invoked EXCEPT ![e] = @ \o eff.invoked]
  /\ lastCall' = Call(op, e, 0, Undefined, FALSE, This(e), eff)
  /\ UNCHANGED <<created, params_, sessionOpen, chain, continues, ncalls, threw,
                 shared>>

GetUrl(e) == Access("url", e, url(This(e)))

GetMethod(e) == Access("method", e, method(This(e)))

GetHeaders(e) == Access("headers", e, headers(This(e)))

GetResourceType(e) == Access("resourceType", e, resourceType(This(e)))

Abort(e, h) ==
  /\ Holds(e, h) /\ ncalls < MaxCalls
  /\ Apply("abort", e, h, Undefined, FALSE, abort(This(e)))

Fail(e, h) ==
  /\ Holds(e, h) /\ ncalls < MaxCalls
  /\ Apply("fail", e, h, Undefined, FALSE, fail(This(e)))

\* request.continue() by handler h; `throws`: the handler it calls throws
Continue(e, h, throws) ==
  /\ Holds(e, h) /\ ncalls < MaxCalls
  /\ throws => handlers_[e] # <<>>
  /\ Apply("continue", e, h, Undefined, throws, continue(This(e), throws))

DeferToBrowser(e, h, overrides) ==
  /\ Holds(e, h) /\ ncalls < MaxCalls
  /\ Apply("deferToBrowser", e, h, overrides, FALSE,
           deferToBrowser(This(e), overrides))

Fulfill(e, h, options) ==
  /\ Holds(e, h) /\ ncalls < MaxCalls
  /\ Apply("fulfill", e, h, options, FALSE, fulfill(This(e), options))

\* The session closes: every later send is rejected.
CloseSession ==
  /\ sessionOpen
  /\ sessionOpen' = FALSE
  /\ UNCHANGED <<created, params_, handlers_, done_, sent, chain, invoked,
                 continues, ncalls, threw, registry, shared, lastCall>>

\* The host: it keeps the handler registration list and constructs an event
\* for each interception notification with a fresh copy of the list.

\* The host's list handed over as the array itself
sameList(list) == Array(list, TRUE)

\* A fresh copy of the current registration list
freshCopy(list) == Array(list, FALSE)

\* A change of the registration list in place: the events that hold the list
\* itself see it
Registration(list) ==
  /\ registry' = list
  /\ handlers_' = [x \in created |-> IF x \in shared THEN list ELSE handlers_[x]]
  /\ UNCHANGED <<created, params_, done_, sent, sessionOpen, chain, invoked,
                 continues, ncalls, threw, shared, lastCall>>

\* Handlers are numbered in the order of their registration: a new one
\* comes after those registered now and those any event was created with.
Register(h) ==
  /\ \A x \in Range(registry) \cup UNION {Range(chain[e]) : e \in created} : x < h
  /\ Registration(Append(registry, h))

Unregister(h) ==
  /\ h \in Range(registry)
  /\ Registration(SelectSeq(registry, LAMBDA x : x # h))

\* The host receives the notification of event e.
Intercept(e) == Construct(e, Notification(e), freshCopy(registry), FALSE)

Next ==
  \/ \E e \in Events, hs \in Chains : NewHttpRequest(e, Notification(e), hs, FALSE)
  \/ \E e \in Events, h \in Handlers : Abort(e, h)
  \/ \E e \in Events, h \in Handlers : Fail(e, h)
  \/ \E e \in Events, h \in Handlers : Continue(e, h, FALSE)
  \/ \E e \in Events, h \in Handlers, o \in SomeOverrides : DeferToBrowser(e, h, o)
  \/ \E e \in Events, h \in Handlers, o \in SomeOptions : Fulfill(e, h, o)
  \/ CloseSession

Spec == Init /\ [][Next]_vars

\* The life of events whose handlers may throw as soon as they are called
ThrowNext ==
  \/ \E e \in Events, hs \in Chains, throws \in BOOLEAN :
       NewHttpRequest(e, Notification(e), hs, throws)
  \/ \E e \in Events, h \in Handlers, throws \in BOOLEAN : Continue(e, h, throws)
  \/ \E e \in Events, h \in Handlers : Abort(e, h)
  \/ \E e \in Events, h \in Handlers, o \in SomeOverrides : DeferToBrowser(e, h, o)

ThrowSpec == Init /\ [][ThrowNext]_vars

\* Handlers that make exactly one call of a decision method each: handler h
\* of event e has made its call when it called continue(), or when the event
\* is resolved and h is the handler called last.
Decided(e, h) ==
  \/ h \in Range(continues[e])
  \/ done_[e] /\ invoked[e] # <<>> /\ h = invoked[e][Len(invoked[e])]

\* Handler h makes its one call on event e.
Decides(e, h) ==
  /\ Holds(e, h) /\ ~Decided(e, h)
  /\ \/ Apply("continue", e, h, Undefined, FALSE, continue(This(e), FALSE))
     \/ Apply("abort", e, h, Undefined, FALSE, abort(This(e)))
     \/ Apply("fail", e, h, Undefined, FALSE, fail(This(e)))
     \/ \E o \in SomeOverrides :
          Apply("deferToBrowser", e, h, o, FALSE, deferToBrowser(This(e), o))
     \/ \E o \in SomeOptions :
          Apply("fulfill", e, h, o, FALSE, fulfill(This(e), o))

\* Two events in flight together, with chains of any length
LiveEvents == {1, 2}

LiveNext ==
  \/ \E e \in LiveEvents, hs \in Chains :
       NewHttpRequest(e, Notification(e), hs, FALSE)
  \/ \E e \in LiveEvents, h \in Handlers : Decides(e, h)
  \/ CloseSession

\* Every handler that was called makes its call in the end.
LiveSpec ==
  /\ Init /\ [][LiveNext]_vars
  /\ \A e \in LiveEvents, h \in Handlers : WF_vars(Decides(e, h))

\* The host registers and unregisters handlers while events are in flight.
HostNext ==
  \/ \E h \in Handlers : Register(h)
  \/ \E h \in Handlers : Unregister(h)
  \/ \E e \in Events : Intercept(e)
  \/ \E e \in Events, h \in Handlers : Continue(e, h, FALSE)
  \/ \E e \in Events, h \in Handlers : Fail(e, h)

HostSpec == Init /\ [][HostNext]_vars

\* The life of events with reads of their accessors in between
AccessNext ==
  \/ \E e \in Events, hs \in Chains : NewHttpRequest(e, Notification(e), hs, FALSE)
  \/ \E e \in Events, h \in Handlers : Continue(e, h, FALSE)
  \/ \E e \in Events, h \in Handlers, o \in SomeOptions : Fulfill(e, h, o)
  \/ \E e \in Events : GetUrl(e)
  \/ \E e \in Events : GetMethod(e)
  \/ \E e \in Events : GetHeaders(e)
  \/ \E e \in Events : GetResourceType(e)

AccessSpec == Init /\ [][AccessNext]_vars

\* One event with one handler, which makes one call of deferToBrowser or
\* fulfill with any argument.
ShapeNext ==
  \/ \E hs \in Chains : Len(hs) = 1 /\ NewHttpRequest(1, Notification(1), hs, FALSE)
  \/ \E o \in AllOverrides : ncalls = 0 /\ DeferToBrowser(1, 1, o)
  \/ \E o \in AllOptions : ncalls = 0 /\ Fulfill(1, 1, o)

ShapeSpec == Init /\ [][ShapeNext]_vars

----------------------------------------------------------------------------
\* Properties

\* The commands sent for event e
SentFor(e) == SelectSeq(sent, LAMBDA c : c.params.requestId = params_[e].requestId)

Terminating == {"abort", "fail", "deferToBrowser", "fulfill"}

\* Handler k of event e was called
Invoked(e, k) == chain[e][k] \in Range(invoked[e])

\* Every handler registered before handler k of event e called continue()
PredecessorsContinued(e, k) ==
  \A j \in 1..(k - 1) : chain[e][j] \in Range(continues[e])

\* C1: for every event, whatever decision methods were called on it, at most
\* one command was sent with its request id.
C1_AtMostOneCommand == \A e \in created : Len(SentFor(e)) <= 1

\* C2: a call of abort, fail, deferToBrowser or fulfill on an event that is
\* already resolved fails with the resolution conflict and sends no command.
C2_ResolvedCallConflicts ==
  (lastCall.op \in Terminating /\ lastCall.before.done_)
    => (lastCall.outcome = Conflict /\ lastCall.cmds = <<>>)

\* C3: the k-th handler of an event's chain has been called if and only if
\* every handler before it has called continue().
C3_InvokedIffPredecessorsContinued ==
  \A e \in created : \A k \in 1..Len(chain[e]) :
    Invoked(e, k) <=> PredecessorsContinued(e, k)

\* C4: once continue() was called twice on an event, still no handler has
\* been called unless all handlers before it called continue(), and at most
\* one command was sent for the event.
C4_ContinueTwice ==
  \A e \in created :
    Len(continues[e]) >= 2 =>
      /\ \A k \in 1..Len(chain[e]) : Invoked(e, k) => PredecessorsContinued(e, k)
      /\ Len(SentFor(e)) <= 1

\* C5: constructing an event with an empty handler list sends exactly one
\* Fetch.continueRequest whose only parameter is the request id, and the
\* event is resolved when the constructor returns.
C5_EmptyChainResolves ==
  (lastCall.op = "new" /\ lastCall.arg = <<>>) =>
    /\ lastCall.cmds =
         <<[method |-> "Fetch.continueRequest",
            params |-> [requestId |-> Notification(lastCall.event).requestId]]>>
    /\ SentFor(lastCall.event) = lastCall.cmds
    /\ done_[lastCall.event]
    /\ invoked[lastCall.event] = <<>>

C5_Witness ==
  lastCall.op = "new" /\ lastCall.arg = <<>> /\ lastCall.event = 2 /\ sent # <<>>

\* The overrides object's own fields (none when no argument is given)
Given(o) == IF o = Undefined THEN EmptyObject ELSE o.v

ContinueRequest(id, fields) ==
  [method |-> "Fetch.continueRequest", params |-> [requestId |-> id] @@ fields]

DeferredPending == lastCall.op = "deferToBrowser" /\ ~lastCall.before.done_

\* C6 as stated: deferToBrowser(overrides) on a pending event sends one
\* Fetch.continueRequest whose parameters are the request id plus exactly the
\* fields of url, method, headers that are present in overrides.
C6_PresentFieldsCopied ==
  DeferredPending =>
    lastCall.cmds = <<ContinueRequest(lastCall.event, Given(lastCall.arg))>>

\* C6 amended: deferToBrowser(overrides) on a pending event sends one
\* Fetch.continueRequest whose parameters are the request id plus exactly the
\* fields of url, method, headers that overrides holds with a value other
\* than the empty string.
C6_NonEmptyFieldsCopied ==
  DeferredPending =>
    LET o == Given(lastCall.arg)
        kept == {f \in DOMAIN o : o[f] # Str(<<>>)}
    IN  /\ lastCall.cmds = <<ContinueRequest(lastCall.event, [f \in kept |-> o[f]])>>
        /\ sent = lastCall.cmds

C6_Witness ==
  /\ DeferredPending
  /\ lastCall.arg = Fields([url |-> Str(<<>>), method |-> Str(POST), headers |-> Obj(<<>>)])
  /\ DOMAIN sent[1].params = {"requestId", "method", "headers"}

\* C7: deferToBrowser() on a pending event resolves it, calls no handler and
\* leaves the queue of handlers as it was.
C7_DeferConsultsNoHandler ==
  DeferredPending =>
    /\ lastCall.invoked = <<>>
    /\ handlers_[lastCall.event] = lastCall.before.handlers_
    /\ Len(invoked[lastCall.event]) + Len(handlers_[lastCall.event])
         = Len(chain[lastCall.event])
    /\ done_[lastCall.event]

C7_Witness == DeferredPending /\ Len(lastCall.before.handlers_) = 2

\* C8: from every state of every event, abort() and fail() send the same
\* command with the same parameters, leave the same state and return the same
\* outcome.
C8_AbortSameAsFail == \A e \in created : abort(This(e)) = fail(This(e))

C8_Witness ==
  /\ lastCall.op = "fail" /\ lastCall.before.done_
  /\ lastCall.cmds[1].params.errorReason = "Failed"
  /\ \E e \in created : ~done_[e] /\ handlers_[e] # <<>>

----------------------------------------------------------------------------
\* Properties of fulfill

\* b is text a with its letters A-Z replaced by a-z
IsLowerCased(a, b) ==
  /\ Len(a) = Len(b)
  /\ \A i \in DOMAIN a : b[i] = IF a[i] >= 65 /\ a[i] <= 90 THEN a[i] + 32 ELSE a[i]

Utf8Bytes(c) ==
  IF c < 128 THEN <<c>> ELSE <<192 + (c \div 64), 128 + (c % 64)>>

RECURSIVE Utf8(_)
Utf8(s) == IF s = <<>> THEN <<>> ELSE Utf8Bytes(Head(s)) \o Utf8(Tail(s))

\* The bytes of a body: none when it is absent
BodyBytes(body) ==
  IF body = Undefined THEN <<>>
  ELSE IF body.t = "buffer" THEN body.v ELSE Utf8(body.v)

\* The number a decimal numeral denotes (-1 when it is no numeral)
RECURSIVE DecimalValue(_)
DecimalValue(d) ==
  IF d = <<>> \/ d[Len(d)] < 48 \/ d[Len(d)] > 57 THEN -1
  ELSE IF Len(d) = 1 THEN d[1] - 48
  ELSE IF d[1] = 48 \/ DecimalValue(SubSeq(d, 1, Len(d) - 1)) < 0 THEN -1
  ELSE 10 * DecimalValue(SubSeq(d, 1, Len(d) - 1)) + (d[Len(d)] - 48)

SuppliedHeaders(options) ==
  IF Get(options, "headers") = Undefined THEN <<>> ELSE Get(options, "headers").v

\* The emitted header list for the supplied one, with a computed
\* content-length entry after it exactly when withLength holds
HeadersShaped(call, withLength) ==
  LET sup == SuppliedHeaders(call.arg)
      out == call.cmds[1].params.responseHeaders
      own == \E i \in DOMAIN sup : IsLowerCased(sup[i][1], ContentLength)
      last == out[Len(out)]
  IN  /\ Len(out) = Len(sup) + (IF withLength /\ ~own THEN 1 ELSE 0)
      /\ \A i \in DOMAIN sup :
           /\ out[i].name.t = "string"
           /\ IsLowerCased(sup[i][1], out[i].name.v)
           /\ out[i].value = sup[i][2]
      /\ (withLength /\ ~own) =>
           /\ last.name = Str(ContentLength)
           /\ last.value.t = "string"
           /\ DecimalValue(last.value.v) = Len(BodyBytes(Get(call.arg, "body")))

Fulfilled == lastCall.op = "fulfill" /\ Len(lastCall.cmds) = 1

\* C9 as stated: every emitted header is the supplied one with its name
\* lower-cased and its value unchanged, and a computed content-length follows
\* exactly when a body is supplied, of any length, and no supplied name is
\* content-length in any case.
C9_LengthForAnyBody ==
  Fulfilled => HeadersShaped(lastCall, Get(lastCall.arg, "body") # Undefined)

\* C9 amended: as stated, but the computed content-length follows exactly
\* when the supplied body is a buffer of any length or a text that is not
\* empty, and no supplied name is content-length in any case.
C9_LengthForTruthyBody ==
  Fulfilled =>
    HeadersShaped(lastCall, /\ Get(lastCall.arg, "body") # Undefined
                            /\ Get(lastCall.arg, "body") # Str(<<>>))

C9_Witness ==
  /\ Fulfilled
  /\ Get(lastCall.arg, "body") = Str(<<104, 233>>)
  /\ SuppliedHeaders(lastCall.arg) = << <<XId, Str(Text7)>> >>
  /\ Len(sent[1].params.responseHeaders) = 2
  /\ sent[1].params.responseHeaders[2].value = Str(<<51>>)

\* A supplied Content-Length with an empty buffer: lower-cased, not joined by
\* a computed one
C9_WitnessOwnLength ==
  /\ Fulfilled
  /\ Get(lastCall.arg, "body") = Buf(<<>>)
  /\ SuppliedHeaders(lastCall.arg) = << <<MixedContentLength, Str(Text99)>> >>
  /\ sent[1].params.responseHeaders = <<[name |-> Str(ContentLength), value |-> Str(Text99)]>>

\* Position of a character in the base64 alphabet (-1 when outside it)
Base64Index(c) ==
  IF c >= 65 /\ c <= 90 THEN c - 65
  ELSE IF c >= 97 /\ c <= 122 THEN c - 71
  ELSE IF c >= 48 /\ c <= 57 THEN c + 4
  ELSE IF c = 43 THEN 62
  ELSE IF c = 47 THEN 63 ELSE -1

RECURSIVE FromSextets(_)
FromSextets(q) ==
  IF Len(q) < 2 THEN <<>>
  ELSE IF Len(q) = 2 THEN <<q[1] * 4 + (q[2] \div 16)>>
  ELSE IF Len(q) = 3
    THEN <<q[1] * 4 + (q[2] \div 16), (q[2] % 16) * 16 + (q[3] \div 4)>>
  ELSE <<q[1] * 4 + (q[2] \div 16), (q[2] % 16) * 16 + (q[3] \div 4),
         (q[3] % 4) * 64 + q[4]>> \o FromSextets(SubSeq(q, 5, Len(q)))

\* Base64 decoding as a reader of the command does it: characters outside
\* the alphabet (the padding among them) carry no bits.
Base64Decode(s) ==
  LET inside == SelectSeq(s, LAMBDA c : Base64Index(c) >= 0)
  IN  FromSextets([i \in DOMAIN inside |-> Base64Index(inside[i])])

\* Padded base64: a multiple of four characters of the alphabet, at most the
\* last two of them padding
IsBase64(s) ==
  /\ Len(s) % 4 = 0
  /\ \A i \in DOMAIN s :
       \/ Base64Index(s[i]) >= 0
       \/ s[i] = Pad /\ i >= Len(s) - 1 /\ s[Len(s)] = Pad

Encodes(emitted, body) ==
  /\ emitted.t = "string"
  /\ IsBase64(emitted.v)
  /\ Base64Decode(emitted.v) = BodyBytes(body)

\* C10 as stated: the command's responseCode is the supplied status, or 200
\* when none is supplied, and its body is the base64 encoding of the supplied
\* body, text or bytes (of no bytes when none is supplied): decoding it gives
\* the body back.
C10_StatusAndEncodedBody ==
  Fulfilled =>
    LET st == Get(lastCall.arg, "status")
        p == lastCall.cmds[1].params
    IN  /\ lastCall.cmds[1].method = "Fetch.fulfillRequest"
        /\ p.responseCode = IF st = Undefined THEN Num(200) ELSE st
        /\ Encodes(p.body, Get(lastCall.arg, "body"))

\* C10 amended: the command's responseCode is the supplied status, or 200
\* when none or 0 is supplied; its body is the base64 encoding of a body
\* supplied as bytes (of no bytes when no body or the empty text is
\* supplied), which decodes back to the body; a text that is not empty is
\* sent as it is, not encoded.
C10_StatusAndBufferEncoded ==
  Fulfilled =>
    LET st == Get(lastCall.arg, "status")
        body == Get(lastCall.arg, "body")
        p == lastCall.cmds[1].params
    IN  /\ lastCall.cmds[1].method = "Fetch.fulfillRequest"
        /\ p.responseCode = IF st = Undefined \/ st = Num(0) THEN Num(200) ELSE st
        /\ IF body # Undefined /\ body.t = "string" /\ body.v # <<>>
           THEN p.body = body
           ELSE Encodes(p.body, body)

C10_Witness ==
  /\ Fulfilled
  /\ lastCall.arg = Fields([status |-> Num(404), headers |-> Undefined,
                            body |-> Buf(<<104, 255>>)])
  /\ sent[1].params.responseCode = Num(404)
  /\ sent[1].params.body = Str(<<97, 80, 56, 61>>)

----------------------------------------------------------------------------
\* Properties of the outcome of a call

Decisions == Terminating \cup {"continue"}

\* C11: when a decision method hands a command to a session whose send
\* rejects, the caller of that method gets the rejection (continue()
\* included), and none is lost; the command is handed over once.
C11_RejectionReachesCaller ==
  (lastCall.op \in Decisions /\ lastCall.cmds # <<>> /\ ~lastCall.open) =>
    /\ lastCall.outcome = "rejected: transport"
    /\ lastCall.dropped = "none"
    /\ Len(lastCall.cmds) = 1

----------------------------------------------------------------------------
\* Properties of the accessors

Accessors == {"url", "method", "headers", "resourceType"}

\* What the notification of event e says under an accessor's name
Notified(op, e) ==
  LET n == Notification(e)
  IN  CASE op = "url" -> n.request.url
        [] op = "method" -> n.request.method
        [] op = "headers" -> IF "headers" \in DOMAIN n.request
                             THEN n.request.headers ELSE Obj(<<>>)
        [] op = "resourceType" -> n.resourceType

\* C13: url(), method(), headers() and resourceType() return what the
\* notification of the event says (headers() an empty mapping when it has no
\* headers), the same before and after resolution, and a read sends no
\* command, calls no handler and leaves the resolved flag and the queue of
\* handlers as they were.
C13_AccessorsOnlyRead ==
  (lastCall.op \in Accessors) =>
    /\ lastCall.outcome = Notified(lastCall.op, lastCall.event)
    /\ lastCall.cmds = <<>>
    /\ lastCall.invoked = <<>>
    /\ lastCall.dropped = "none"
    /\ done_[lastCall.event] = lastCall.before.done_
    /\ handlers_[lastCall.event] = lastCall.before.handlers_
    /\ params_[lastCall.event] = Notification(lastCall.event)

C13_Witness ==
  /\ lastCall.op = "headers" /\ lastCall.event = 2
  /\ lastCall.before.done_ /\ SentFor(2) # <<>>
  /\ lastCall.outcome = Obj(<<>>)

----------------------------------------------------------------------------
\* Properties of an event's chain and the registration list

IsPrefix(a, b) == Len(a) <= Len(b) /\ a = SubSeq(b, 1, Len(a))

\* The handlers an event has called and those it will still call are the
\* registration list as it was when the event was created
ChainAsCreated ==
  \A e \in created :
    /\ IsPrefix(invoked[e], chain[e])
    /\ invoked[e] \o handlers_[e] = chain[e]

\* A step that changes the registration list is no construction and no call
\* on an event; a step that changes what an event called or will call is a
\* call on that event.
ChainStep ==
  /\ registry' # registry => (created' = created /\ ncalls' = ncalls)
  /\ \A e \in created :
       (handlers_'[e] # handlers_[e] \/ invoked'[e] # invoked[e]) =>
         (ncalls' = ncalls + 1 /\ lastCall'.event = e)

\* C14: the handlers an event calls are, in order, a prefix of the
\* registration list as it was when the event was created: registering or
\* unregistering handlers later, or creating another event from the list,
\* changes nothing of it, and driving an event's chain does not change the
\* registration list.
C14_ChainIsSnapshot == []ChainAsCreated /\ [][ChainStep]_vars

C14_Witness ==
  /\ created = {1, 2}
  /\ Len(invoked[1]) = 2 /\ handlers_[1] # <<>>
  /\ chain[2] # chain[1] /\ Len(invoked[2]) = 1
  /\ registry # chain[1] /\ registry # chain[2]

----------------------------------------------------------------------------
\* Properties of events in flight together

\* The commands a step hands to the session
NewCommands == SubSeq(sent', Len(sent) + 1, Len(sent'))

\* A step sends only commands that carry the request id of the event the
\* step's call was made on, and changes the resolved flag of no other event.
OwnEventStep ==
  /\ IsPrefix(sent, sent')
  /\ IF lastCall'.op = "none"
     THEN sent' = sent /\ done_' = done_
     ELSE /\ \A i \in DOMAIN NewCommands :
               NewCommands[i].params.requestId = params_'[lastCall'.event].requestId
          /\ \A x \in created \ {lastCall'.event} : done_'[x] = done_[x]
          /\ (sent' # sent \/ done_' # done_) => lastCall'.op \in Decisions \cup {"new"}

\* C15: events have distinct request ids, and however the decision calls on
\* them interleave, every command sent carries the request id of the event
\* whose call produced it, and a call on one event changes no other event's
\* resolved flag.
C15_EventsAreIsolated ==
  /\ [](\A x, y \in created : params_[x].requestId = params_[y].requestId => x = y)
  /\ [][OwnEventStep]_vars

C15_Witness ==
  /\ created = {1, 2}
  /\ Len(sent) = 2
  /\ sent[1].params.requestId = params_[2].requestId
  /\ sent[2].params.requestId = params_[1].requestId
  /\ lastCall.op = "fulfill" /\ lastCall.event = 1
  /\ done_[1] /\ done_[2]

----------------------------------------------------------------------------
\* Properties of continue()

\* C16: continue() called on an event that is already resolved fails, calls
\* no remaining handler, leaves the queue of handlers as it was and sends no
\* command.
C16_ContinueOnResolvedFails ==
  (lastCall.op = "continue" /\ lastCall.before.done_) =>
    /\ lastCall.outcome = Conflict
    /\ lastCall.invoked = <<>>
    /\ handlers_[lastCall.event] = lastCall.before.handlers_
    /\ lastCall.cmds = <<>>

\* C17: continue() on a pending event with a handler still queued removes
\* exactly the front handler, calls it once with the event, sends no command
\* and leaves the event pending; and whatever the state, a command that
\* continue() sends carries the request id alone, no url, method or headers.
C17_ContinueCallsFrontHandler ==
  (lastCall.op = "continue") =>
    /\ \A i \in DOMAIN lastCall.cmds :
         /\ lastCall.cmds[i].method = "Fetch.continueRequest"
         /\ DOMAIN lastCall.cmds[i].params = {"requestId"}
    /\ (~lastCall.before.done_ /\ lastCall.before.handlers_ # <<>>) =>
         /\ handlers_[lastCall.event] = Tail(lastCall.before.handlers_)
         /\ lastCall.invoked = <<Head(lastCall.before.handlers_)>>
         /\ Len(SelectSeq(invoked[lastCall.event],
                          LAMBDA x : x = Head(lastCall.before.handlers_))) = 1
         /\ lastCall.cmds = <<>>
         /\ SentFor(lastCall.event) = <<>>
         /\ ~done_[lastCall.event]

C17_Witness ==
  /\ lastCall.op = "continue" /\ ~lastCall.throws
  /\ ~lastCall.before.done_ /\ Len(lastCall.before.handlers_) = 2
  /\ Len(invoked[lastCall.event]) = 2 /\ ~done_[lastCall.event]

----------------------------------------------------------------------------
\* Properties of the resolved flag and the queue

\* C18: in every state an event's resolved flag is true if and only if at
\* least one command was handed to the session for it, and a flag that is
\* true stays true, also when the session rejects the command.
C18_ResolvedIffCommandHandedOver ==
  /\ [](\A e \in created : done_[e] <=> SentFor(e) # <<>>)
  /\ [][\A e \in created : done_[e] => done_'[e]]_vars

C18_Witness ==
  /\ created = {1, 2}
  /\ ~sessionOpen /\ lastCall.op \in Terminating /\ lastCall.event = 1
  /\ lastCall.outcome = "rejected: transport"
  /\ done_[1] /\ Len(SentFor(1)) = 1
  /\ ~done_[2] /\ SentFor(2) = <<>>

Min(a, b) == IF a <= b THEN a ELSE b

\* How many times handler h of event e was called
TimesInvoked(e, h) == Len(SelectSeq(invoked[e], LAMBDA x : x = h))

\* C19: in every state of an event created with n handlers, each handler of
\* the chain was called at most once, the number of handler calls is at most
\* the smaller of n and one more than the continue() calls made so far, and
\* the handlers called followed by the handlers queued are the original
\* chain.
C19_QueueConsumedFrontToBack ==
  \A e \in created :
    /\ \A k \in DOMAIN chain[e] : TimesInvoked(e, chain[e][k]) <= 1
    /\ Len(invoked[e]) <= Min(Len(chain[e]), 1 + Len(continues[e]))
    /\ invoked[e] \o handlers_[e] = chain[e]

C19_Witness ==
  \E e \in created :
    /\ Len(chain[e]) = 3 /\ Len(continues[e]) = 2
    /\ Len(invoked[e]) = 3 /\ handlers_[e] = <<>>

\* An event whose only continue() calls came from one handler
C19_WitnessSameCaller ==
  \E e \in created :
    /\ continues[e] = <<1, 1>> /\ Len(invoked[e]) = 3

----------------------------------------------------------------------------
\* Liveness

Resolved(e) == e \in created /\ done_[e] /\ SentFor(e) # <<>>

AllContinued(e) == \A k \in DOMAIN chain[e] : chain[e][k] \in Range(continues[e])

\* C20: when every handler that is called makes exactly one call of a
\* decision method in the end, every event is resolved in the end, with a
\* command sent; and once all handlers of an event have called continue(),
\* that command is the default Fetch.continueRequest with the request id
\* alone, sent by the last handler's call.
C20_EventuallyResolved ==
  /\ \A e \in LiveEvents : (e \in created) ~> Resolved(e)
  /\ [](\A e \in created :
          AllContinued(e) =>
            /\ done_[e]
            /\ SentFor(e) = <<ContinueRequest(params_[e].requestId, EmptyObject)>>)
  /\ [](\A e \in created : Resolved(e) /\ ~AllContinued(e) => Len(SentFor(e)) = 1)

C20_Witness ==
  /\ lastCall.op = "continue" /\ Len(chain[lastCall.event]) = 3
  /\ lastCall.handler = 3
  /\ AllContinued(lastCall.event) /\ Resolved(lastCall.event)
  /\ lastCall.cmds = SentFor(lastCall.event)

====
